---------------------------- MODULE Spec2Model ----------------------------
(***************************************************************************)
(* Simple Interest calculator (src/simple_interest.py).                    *)
(*                                                                         *)
(* The program is a pure function calculate_simple_interest, a command     *)
(* line shell main (argparse flags with an interactive fallback) and a     *)
(* self-test _run_tests.  Python floats are IEEE-754 binary floating point *)
(* numbers; they are modelled here by a binary format with the same        *)
(* structure (sign, Prec-bit significand, gradual underflow, signed zeros, *)
(* infinities, NaN, round-to-nearest-even) and a smaller precision and     *)
(* exponent range than binary64, so that every operation is computed       *)
(* exactly as IEEE-754 prescribes within TLC's integers.                   *)
(***************************************************************************)
EXTENDS Integers, Sequences, FiniteSets, TLC

(***************************************************************************)
(* The floating-point format.                                              *)
(***************************************************************************)
Prec == 11      \* bits of significand (binary64: 53)
Emax == 31      \* largest exponent of a normal number (binary64: 1023)

EmaxQ == Emax - Prec + 1        \* largest exponent of the integral significand
EminQ == 2 - Emax - Prec        \* smallest one: that of the subnormals

RECURSIVE Pow2(_)
Pow2(n) == IF n <= 0 THEN 1 ELSE 2 * Pow2(n - 1)

RECURSIVE Pow10(_)
Pow10(n) == IF n <= 0 THEN 1 ELSE 10 * Pow10(n - 1)

RECURSIVE BitLen(_)
BitLen(n) == IF n <= 0 THEN 0 ELSE 1 + BitLen(n \div 2)

Max(a, b) == IF a >= b THEN a ELSE b
Xor(a, b) == IF a = b THEN 0 ELSE 1

\* A float is a record: k the class, s the sign bit, and for a finite number
\* the value (-1)^s * m * 2^e, with m = 0 (a zero), or 2^(Prec-1) <= m < 2^Prec
\* (normal), or 0 < m < 2^(Prec-1) and e = EminQ (subnormal).
NaN == [k |-> "nan", s |-> 0, m |-> 0, e |-> 0]
Inf(s) == [k |-> "inf", s |-> s, m |-> 0, e |-> 0]
Zero(s) == [k |-> "fin", s |-> s, m |-> 0, e |-> 0]
Fin(s, m, e) == [k |-> "fin", s |-> s, m |-> m, e |-> e]

IsNaN(x) == x.k = "nan"
IsInf(x) == x.k = "inf"
IsFinite(x) == x.k = "fin"
IsZero(x) == x.k = "fin" /\ x.m = 0

\* The float nearest to (-1)^s * (M + f) * 2^E, where M > 0 is an integer and
\* 0 < f < 1 if st (a sticky bit) and f = 0 otherwise: round to nearest, ties
\* to even; overflow gives an infinity, underflow a subnormal or a zero.
RoundFin(s, M, E, st) ==
    LET nb == BitLen(M)
        q == Max(E + nb - Prec, EminQ)
        sh == q - E
    IN  IF sh <= 0
        THEN IF q > EmaxQ THEN Inf(s) ELSE Fin(s, M * Pow2(-sh), q)
        ELSE IF sh > nb
        THEN Zero(s)
        ELSE LET d == Pow2(sh)
                 m0 == M \div d
                 r == M % d
                 half == d \div 2
                 up == r > half \/ (r = half /\ (st \/ m0 % 2 = 1))
                 m1 == IF up THEN m0 + 1 ELSE m0
                 carry == m1 = Pow2(Prec)
                 m2 == IF carry THEN Pow2(Prec - 1) ELSE m1
                 q2 == IF carry THEN q + 1 ELSE q
             IN  IF m2 = 0 THEN Zero(s)
                 ELSE IF q2 > EmaxQ THEN Inf(s)
                 ELSE Fin(s, m2, q2)

\* Binary long division: num/den scaled into [1, 2), then Prec+1 further
\* quotient bits and a sticky bit for the remainder.
RECURSIVE NormNum(_, _)
NormNum(num, den) == IF num < den THEN NormNum(2 * num, den) ELSE num

RECURSIVE NormDen(_, _)
NormDen(num, den) == IF num >= 2 * den THEN NormDen(num, 2 * den) ELSE den

RECURSIVE NormExp(_, _)
NormExp(num, den) ==
    IF num < den THEN NormExp(2 * num, den) - 1
    ELSE IF num >= 2 * den THEN NormExp(num, 2 * den) + 1
    ELSE 0

RECURSIVE QuotBits(_, _, _, _)
QuotBits(rem, den, M, n) ==
    IF n = 0 THEN [M |-> M, st |-> rem # 0]
    ELSE IF 2 * rem >= den
         THEN QuotBits(2 * rem - den, den, 2 * M + 1, n - 1)
         ELSE QuotBits(2 * rem, den, 2 * M, n - 1)

\* The float nearest to (-1)^s * (num/den) * 2^e0, num > 0, den > 0.
RatToFloat(s, num, den, e0) ==
    LET n == NormNum(num, den)
        d == NormDen(num, den)
        E == NormExp(num, den)
        qb == QuotBits(n - d, d, 1, Prec + 1)
    IN  RoundFin(s, qb.M, e0 + E - (Prec + 1), qb.st)

\* x * y
FMul(x, y) ==
    IF IsNaN(x) \/ IsNaN(y) THEN NaN
    ELSE IF IsInf(x) \/ IsInf(y)
         THEN IF IsZero(x) \/ IsZero(y) THEN NaN ELSE Inf(Xor(x.s, y.s))
    ELSE IF x.m = 0 \/ y.m = 0 THEN Zero(Xor(x.s, y.s))
    ELSE RoundFin(Xor(x.s, y.s), x.m * y.m, x.e + y.e, FALSE)

\* x / y for a finite non-zero divisor y (the program divides by 100.0 only)
FDiv(x, y) ==
    IF IsNaN(x) THEN NaN
    ELSE IF IsInf(x) THEN Inf(Xor(x.s, y.s))
    ELSE IF x.m = 0 THEN Zero(Xor(x.s, y.s))
    ELSE RatToFloat(Xor(x.s, y.s), x.m, y.m, x.e - y.e)

\* x + y for finite non-zero x and y
AddFin(x, y) ==
    LET big == IF x.e >= y.e THEN x ELSE y
        small == IF x.e >= y.e THEN y ELSE x
        d == big.e - small.e
    IN  IF d > Prec + 3
        THEN \* small is below an eighth of big's last place
             IF big.s = small.s
             THEN RoundFin(big.s, 8 * big.m, big.e - 3, TRUE)
             ELSE RoundFin(big.s, 8 * big.m - 1, big.e - 3, TRUE)
        ELSE LET a == big.m * Pow2(d)
                 b == small.m
                 v == (IF big.s = 1 THEN -a ELSE a) + (IF small.s = 1 THEN -b ELSE b)
             IN  IF v = 0 THEN Zero(0)
                 ELSE IF v < 0 THEN RoundFin(1, -v, small.e, FALSE)
                 ELSE RoundFin(0, v, small.e, FALSE)

\* x + y
FAdd(x, y) ==
    IF IsNaN(x) \/ IsNaN(y) THEN NaN
    ELSE IF IsInf(x) /\ IsInf(y) THEN (IF x.s = y.s THEN x ELSE NaN)
    ELSE IF IsInf(x) THEN x
    ELSE IF IsInf(y) THEN y
    ELSE IF x.m = 0 /\ y.m = 0 THEN Zero(IF x.s = y.s THEN x.s ELSE 0)
    ELSE IF x.m = 0 THEN y
    ELSE IF y.m = 0 THEN x
    ELSE AddFin(x, y)

FNeg(x) == IF IsNaN(x) THEN NaN ELSE [x EXCEPT !.s = 1 - x.s]
FSub(x, y) == FAdd(x, FNeg(y))
FAbs(x) == IF IsNaN(x) THEN NaN ELSE [x EXCEPT !.s = 0]

\* |x| < |y| for non-NaN x and y
MagLt(x, y) ==
    IF IsInf(x) THEN FALSE
    ELSE IF IsInf(y) THEN TRUE
    ELSE IF x.m = 0 THEN y.m # 0
    ELSE IF y.m = 0 THEN FALSE
    ELSE x.e < y.e \/ (x.e = y.e /\ x.m < y.m)

\* x < y (false when either is a NaN; -0.0 < 0.0 is false)
FLt(x, y) ==
    IF IsNaN(x) \/ IsNaN(y) THEN FALSE
    ELSE IF IsZero(x) /\ IsZero(y) THEN FALSE
    ELSE IF x.s # y.s THEN x.s = 1
    ELSE IF x.s = 0 THEN MagLt(x, y) ELSE MagLt(y, x)

(***************************************************************************)
(* format(x, ".2f"): the decimal text of x with two digits after the       *)
(* point, correctly rounded (ties to even) from the exact binary value.    *)
(* A text is a sequence of one-character strings.                          *)
(***************************************************************************)
DigitChars == <<"0", "1", "2", "3", "4", "5", "6", "7", "8", "9">>

RECURSIVE NatDigits(_)
NatDigits(n) == IF n < 10 THEN <<n>> ELSE Append(NatDigits(n \div 10), n % 10)

\* the decimal digits of 2 * ds[1..i] + carry
RECURSIVE DoubleFrom(_, _, _)
DoubleFrom(ds, i, carry) ==
    IF i = 0 THEN (IF carry = 0 THEN <<>> ELSE <<carry>>)
    ELSE LET v == 2 * ds[i] + carry
         IN  Append(DoubleFrom(ds, i - 1, v \div 10), v % 10)

RECURSIVE TimesPow2(_, _)
TimesPow2(ds, n) ==
    IF n = 0 THEN ds ELSE TimesPow2(DoubleFrom(ds, Len(ds), 0), n - 1)

Chars(ds) == [i \in 1..Len(ds) |-> DigitChars[ds[i] + 1]]

\* round(m * 2^e * 100) for e < 0, ties to even
Cents(m, e) ==
    IF -e > 30 THEN 0
    ELSE LET d == Pow2(-e)
             c0 == (m * 100) \div d
             r == (m * 100) % d
         IN  IF r > d - r \/ (r = d - r /\ c0 % 2 = 1) THEN c0 + 1 ELSE c0

Fmt2(x) ==
    IF IsNaN(x) THEN <<"n", "a", "n">>
    ELSE LET sign == IF x.s = 1 THEN <<"-">> ELSE <<>>
         IN  IF IsInf(x) THEN sign \o <<"i", "n", "f">>
             ELSE IF x.e >= 0
             THEN sign \o Chars(TimesPow2(NatDigits(x.m), x.e)) \o <<".", "0", "0">>
             ELSE LET c == Cents(x.m, x.e)
                  IN  sign \o Chars(NatDigits(c \div 100)) \o <<".">>
                      \o Chars(<<(c % 100) \div 10, c % 10>>)

(***************************************************************************)
(* float(text): the conversion applied to a flag's value (argparse,        *)
(* type=float) and to a line typed at a prompt.  A text is a sequence of   *)
(* characters: an optional sign followed by "inf", by "nan", or by a       *)
(* decimal numeral with an optional fraction and an optional exponent.     *)
(* Anything else is not numeric and raises ValueError.                     *)
(***************************************************************************)
IsDigit(c) == \E d \in 1..10 : DigitChars[d] = c
DigitVal(c) == (CHOOSE d \in 1..10 : DigitChars[d] = c) - 1

RECURSIVE DigitsVal(_)
DigitsVal(t) ==
    IF t = <<>> THEN 0
    ELSE 10 * DigitsVal(SubSeq(t, 1, Len(t) - 1)) + DigitVal(t[Len(t)])

AllDigits(t) == \A j \in 1..Len(t) : IsDigit(t[j])
HasSign(t) == t # <<>> /\ t[1] \in {"+", "-"}
SignOf(t) == IF t # <<>> /\ t[1] = "-" THEN 1 ELSE 0
Unsigned(t) == IF HasSign(t) THEN Tail(t) ELSE t
\* the first position of one of the characters cs in t, or Len(t) + 1
Find(t, cs) ==
    IF \E j \in 1..Len(t) : t[j] \in cs
    THEN CHOOSE j \in 1..Len(t) : t[j] \in cs /\ \A h \in 1..(j - 1) : t[h] \notin cs
    ELSE Len(t) + 1

\* the float nearest to (-1)^s * digits * 10^exp10
DecToFloat(s, digits, exp10) ==
    IF digits = 0 THEN Zero(s)
    ELSE IF exp10 >= 0 THEN RatToFloat(s, digits * Pow10(exp10), 1, 0)
    ELSE RatToFloat(s, digits, Pow10(-exp10), 0)

BadFloat == [ok |-> FALSE, val |-> NaN]
GoodFloat(x) == [ok |-> TRUE, val |-> x]

ParseFloat(text) ==
    LET s == SignOf(text)
        u == Unsigned(text)
        ePos == Find(u, {"e", "E"})
        mant == SubSeq(u, 1, ePos - 1)
        hasExp == ePos <= Len(u)
        expo == SubSeq(u, ePos + 1, Len(u))
        dot == Find(mant, {"."})
        ip == SubSeq(mant, 1, dot - 1)
        fp == SubSeq(mant, dot + 1, Len(mant))
        mantOk == AllDigits(ip) /\ AllDigits(fp) /\ Len(ip) + Len(fp) > 0
        expOk == ~hasExp \/ (Unsigned(expo) # <<>> /\ AllDigits(Unsigned(expo)))
        ev == IF hasExp
              THEN (IF SignOf(expo) = 1 THEN -1 ELSE 1) * DigitsVal(Unsigned(expo))
              ELSE 0
    IN  IF u = <<"i", "n", "f">> THEN GoodFloat(Inf(s))
        ELSE IF u = <<"n", "a", "n">> THEN GoodFloat(NaN)
        ELSE IF mantOk /\ expOk
        THEN GoodFloat(DecToFloat(s, DigitsVal(ip \o fp), ev - Len(fp)))
        ELSE BadFloat

(***************************************************************************)
(* calculate_simple_interest                                               *)
(***************************************************************************)
Hundred == DecToFloat(0, 100, 0)
PosZero == Zero(0)
NoFloat == [k |-> "none", s |-> 0, m |-> 0, e |-> 0]    \* None
ValueErrorMsg == "principal, rate and time must be non-negative"

\* a variant of AnyNegative that leaves the test of time out
AnyNegativeNoTime(principal, rate, time) ==
    FLt(principal, Zero(0)) \/ FLt(rate, Zero(0))

\* line 25: principal < 0 or rate < 0 or time < 0
AnyNegative(principal, rate, time) ==
    FLt(principal, PosZero) \/ FLt(rate, PosZero) \/ FLt(time, PosZero)

\* variants of InterestOf: the division moved to the end, and the rate
\* compounded onto the principal
InterestOfReordered(principal, rate, time) ==
    FDiv(FMul(FMul(principal, rate), time), DecToFloat(0, 100, 0))

InterestOfCompound(principal, rate, time) ==
    FMul(FMul(principal, FAdd(DecToFloat(0, 1, 0), FDiv(rate, DecToFloat(0, 100, 0)))), time)

\* line 27: principal * (rate / 100.0) * time
InterestOf(principal, rate, time) ==
    FMul(FMul(principal, FDiv(rate, Hundred)), time)

\* a variant of TotalOf that leaves the principal out
TotalOfInterestOnly(principal, interest) == interest

\* line 28: principal + interest
TotalOf(principal, interest) == FAdd(principal, interest)

calculate_simple_interest(principal, rate, time) ==
    IF AnyNegative(principal, rate, time)
    THEN [raised |-> TRUE, msg |-> ValueErrorMsg, interest |-> NoFloat, total |-> NoFloat]
    ELSE LET interest == InterestOf(principal, rate, time)
             total == TotalOf(principal, interest)
         IN  [raised |-> FALSE, msg |-> "", interest |-> interest, total |-> total]

(***************************************************************************)
(* The run of main: the command line, the lines typed at the prompts, and  *)
(* what the run has printed so far.                                        *)
(***************************************************************************)
\* the texts a flag can carry and a user can type
Texts ==
    { <<"1", "0", "0", "0">>, <<"5">>, <<"1">>,
      <<"2", "0", "0", "0">>, <<"3", ".", "5">>, <<"2">>,
      <<"0">>, <<"1", "0">>,
      <<"-", "1", "0", "0">>, <<"-", "0", ".", "0">>,
      <<"i", "n", "f">>, <<"n", "a", "n">>, <<"1", "e", "9">>,
      <<"a", "b", "c">>, <<>> }
Omitted == <<"<omitted>">>      \* a flag that is not on the command line
EOF == <<"<eof>">>              \* the end of the standard input
Flags == {"principal", "rate", "time"}

InvalidLine == <<"Invalid numeric input. Exiting.">>
PassedLine == <<"All tests passed.">>
ErrorLine(msg) == <<"Error: ", msg>>
InterestLine(x) == <<"Interest: ">> \o Fmt2(x)
TotalLine(x) == <<"Total Amount: ">> \o Fmt2(x)

\* _run_tests, lines 70-75: (principal, rate, time, expected_interest)
cases ==
    << <<DecToFloat(0, 1000, 0), DecToFloat(0, 5, 0), DecToFloat(0, 1, 0), DecToFloat(0, 50, 0)>>,
       <<DecToFloat(0, 2000, 0), DecToFloat(0, 35, -1), DecToFloat(0, 2, 0), DecToFloat(0, 140, 0)>>,
       <<DecToFloat(0, 0, 0), DecToFloat(0, 10, 0), DecToFloat(0, 1, 0), DecToFloat(0, 0, 0)>> >>
Tolerance == DecToFloat(0, 1, -9)       \* 1e-9

VARIABLES
    pc,         \* the position of the run
    argv,       \* the command line: test, and the text of each numeric flag
    args,       \* the namespace _parse_args returns
    principal, rate, time,      \* main's locals
    interest, total,            \* main's locals
    prompts,    \* the prompts issued, in order
    typed,      \* the lines read from the standard input, in order
    out,        \* the lines printed on the standard output, in order
    err,        \* what went to the standard error
    status,     \* the exit status, once the run has ended
    calls,      \* the arguments of each call of calculate_simple_interest
    i           \* _run_tests: the index of the next case

vars == <<pc, argv, args, principal, rate, time, interest, total,
          prompts, typed, out, err, status, calls, i>>

NoArgs == [test |-> FALSE, principal |-> NoFloat, rate |-> NoFloat, time |-> NoFloat]
Running == "running"     \* the run has not ended

Init ==
    /\ pc = "start"
    /\ argv \in [test : BOOLEAN, principal : Texts \cup {Omitted},
                 rate : Texts \cup {Omitted}, time : Texts \cup {Omitted}]
    /\ args = NoArgs
    /\ principal = NoFloat /\ rate = NoFloat /\ time = NoFloat
    /\ interest = NoFloat /\ total = NoFloat
    /\ prompts = <<>> /\ typed = <<>> /\ out = <<>>
    /\ err = "" /\ status = Running
    /\ calls = <<>>
    /\ i = 1

\* argparse, type=float: the value of a flag, None when the flag is omitted
FlagValue(text) == IF text = Omitted THEN NoFloat ELSE ParseFloat(text).val
FlagRejected(text) == text # Omitted /\ ~ParseFloat(text).ok

\* _parse_args and the test of args.test: argparse ends the run with a usage
\* error and status 2 when a flag's value is not a float.
ParseArgs ==
    /\ pc = "start"
    /\ IF \E f \in Flags : FlagRejected(argv[f])
       THEN /\ err' = "usage"
            /\ status' = "exit 2"
            /\ pc' = "done"
            /\ UNCHANGED args
       ELSE /\ args' = [test |-> argv.test,
                        principal |-> FlagValue(argv.principal),
                        rate |-> FlagValue(argv.rate),
                        time |-> FlagValue(argv.time)]
            /\ pc' = IF argv.test THEN "tests" ELSE "acq_principal"
            /\ UNCHANGED <<err, status>>
    /\ UNCHANGED <<argv, principal, rate, time, interest, total,
                   prompts, typed, out, calls, i>>

\* line 78 and line 79: abs(x - y) < 1e-9
Close(x, y) == \E d \in {FSub(x, y)} : FLt(FAbs(d), Tolerance)

\* one iteration of the loop of _run_tests (lines 76-79); an exception of the
\* call and a failed assertion are fatal
RunTestCase ==
    /\ pc = "tests"
    /\ i <= Len(cases)
    /\ calls' = Append(calls, <<cases[i][1], cases[i][2], cases[i][3]>>)
    /\ \E res \in {calculate_simple_interest(cases[i][1], cases[i][2], cases[i][3])} :
       \E sum \in {FAdd(cases[i][1], cases[i][4])} :
           IF ~res.raised /\ Close(res.interest, cases[i][4]) /\ Close(res.total, sum)
           THEN /\ i' = i + 1
                /\ UNCHANGED <<pc, err, status>>
           ELSE /\ err' = IF res.raised THEN "ValueError" ELSE "AssertionError"
                /\ status' = "exit 1"
                /\ pc' = "done"
                /\ UNCHANGED i
    /\ UNCHANGED <<argv, args, principal, rate, time, interest, total,
                   prompts, typed, out>>

\* a variant of TestsPassed without main's return after _run_tests
TestsPassedNoReturn ==
    /\ pc = "tests"
    /\ i > Len(cases)
    /\ out' = Append(out, PassedLine)
    /\ pc' = "acq_principal"
    /\ UNCHANGED <<argv, args, principal, rate, time, interest, total,
                   prompts, typed, err, status, calls, i>>

\* the end of _run_tests and main's return
TestsPassed ==
    /\ pc = "tests"
    /\ i > Len(cases)
    /\ out' = Append(out, PassedLine)
    /\ status' = "exit 0"
    /\ pc' = "done"
    /\ UNCHANGED <<argv, args, principal, rate, time, interest, total,
                   prompts, typed, err, calls, i>>

\* a variant of ReadFails in which ValueError is not caught
ReadFailsUncaught(line) ==
    /\ err' = IF line = EOF THEN "EOFError" ELSE "ValueError"
    /\ typed' = IF line = EOF THEN typed ELSE Append(typed, line)
    /\ status' = "exit 1"
    /\ pc' = "done"
    /\ UNCHANGED out

\* float(input(prompt)) inside main's first try (lines 50-56): the prompt is
\* issued and one line is read; EOFError at the end of the input is not
\* caught; ValueError from float is caught, the fixed message is printed and
\* main returns.  ReadFails is the part common to the three prompts.
ReadFails(line) ==
    IF line = EOF
    THEN /\ err' = "EOFError"
         /\ status' = "exit 1"
         /\ pc' = "done"
         /\ UNCHANGED <<typed, out>>
    ELSE /\ typed' = Append(typed, line)
         /\ out' = Append(out, InvalidLine)
         /\ status' = "exit 0"
         /\ pc' = "done"
         /\ UNCHANGED err

ReadOk(line) == line # EOF /\ ParseFloat(line).ok

\* a variant of AcquirePrincipal whose handler goes on with 0.0
AcquirePrincipalDefault ==
    /\ pc = "acq_principal"
    /\ IF args.principal # NoFloat
       THEN /\ principal' = args.principal
            /\ pc' = "acq_rate"
            /\ UNCHANGED <<prompts, typed, out, err, status>>
       ELSE \E line \in Texts \cup {EOF} :
                /\ prompts' = Append(prompts, "Principal: ")
                /\ IF ReadOk(line)
                   THEN /\ typed' = Append(typed, line)
                        /\ principal' = ParseFloat(line).val
                        /\ pc' = "acq_rate"
                        /\ UNCHANGED <<out, err, status>>
                   ELSE IF line = EOF
                   THEN /\ ReadFails(line)
                        /\ UNCHANGED principal
                   ELSE /\ typed' = Append(typed, line)
                        /\ out' = Append(out, InvalidLine)
                        /\ principal' = Zero(0)
                        /\ pc' = "acq_rate"
                        /\ UNCHANGED <<err, status>>
    /\ UNCHANGED <<argv, args, rate, time, interest, total, calls, i>>

\* line 51
AcquirePrincipal ==
    /\ pc = "acq_principal"
    /\ IF args.principal # NoFloat
       THEN /\ principal' = args.principal
            /\ pc' = "acq_rate"
            /\ UNCHANGED <<prompts, typed, out, err, status>>
       ELSE \E line \in Texts \cup {EOF} :
                /\ prompts' = Append(prompts, "Principal: ")
                /\ IF ReadOk(line)
                   THEN /\ typed' = Append(typed, line)
                        /\ principal' = ParseFloat(line).val
                        /\ pc' = "acq_rate"
                        /\ UNCHANGED <<out, err, status>>
                   ELSE /\ ReadFails(line)
                        /\ UNCHANGED principal
    /\ UNCHANGED <<argv, args, rate, time, interest, total, calls, i>>

\* a variant of AcquireRate that tests the flag's value for truth, not for None
AcquireRateTruthy ==
    /\ pc = "acq_rate"
    /\ IF args.rate # NoFloat /\ ~IsZero(args.rate)
       THEN /\ rate' = args.rate
            /\ pc' = "acq_time"
            /\ UNCHANGED <<prompts, typed, out, err, status>>
       ELSE \E line \in Texts \cup {EOF} :
                /\ prompts' = Append(prompts, "Annual rate (percent): ")
                /\ IF ReadOk(line)
                   THEN /\ typed' = Append(typed, line)
                        /\ rate' = ParseFloat(line).val
                        /\ pc' = "acq_time"
                        /\ UNCHANGED <<out, err, status>>
                   ELSE /\ ReadFails(line)
                        /\ UNCHANGED rate
    /\ UNCHANGED <<argv, args, principal, time, interest, total, calls, i>>

\* line 52
AcquireRate ==
    /\ pc = "acq_rate"
    /\ IF args.rate # NoFloat
       THEN /\ rate' = args.rate
            /\ pc' = "acq_time"
            /\ UNCHANGED <<prompts, typed, out, err, status>>
       ELSE \E line \in Texts \cup {EOF} :
                /\ prompts' = Append(prompts, "Annual rate (percent): ")
                /\ IF ReadOk(line)
                   THEN /\ typed' = Append(typed, line)
                        /\ rate' = ParseFloat(line).val
                        /\ pc' = "acq_time"
                        /\ UNCHANGED <<out, err, status>>
                   ELSE /\ ReadFails(line)
                        /\ UNCHANGED rate
    /\ UNCHANGED <<argv, args, principal, time, interest, total, calls, i>>

\* line 53
AcquireTime ==
    /\ pc = "acq_time"
    /\ IF args.time # NoFloat
       THEN /\ time' = args.time
            /\ pc' = "calc"
            /\ UNCHANGED <<prompts, typed, out, err, status>>
       ELSE \E line \in Texts \cup {EOF} :
                /\ prompts' = Append(prompts, "Time (years): ")
                /\ IF ReadOk(line)
                   THEN /\ typed' = Append(typed, line)
                        /\ time' = ParseFloat(line).val
                        /\ pc' = "calc"
                        /\ UNCHANGED <<out, err, status>>
                   ELSE /\ ReadFails(line)
                        /\ UNCHANGED time
    /\ UNCHANGED <<argv, args, principal, rate, interest, total, calls, i>>

\* a variant of Calculate in which ValueError is not caught
CalculateUncaught ==
    /\ pc = "calc"
    /\ LET res == calculate_simple_interest(principal, rate, time)
       IN  /\ calls' = Append(calls, <<principal, rate, time>>)
           /\ IF res.raised
              THEN /\ err' = "ValueError"
                   /\ status' = "exit 1"
                   /\ pc' = "done"
                   /\ UNCHANGED <<interest, total, out>>
              ELSE /\ interest' = res.interest
                   /\ total' = res.total
                   /\ pc' = "print_interest"
                   /\ UNCHANGED <<out, status, err>>
    /\ UNCHANGED <<argv, args, principal, rate, time, prompts, typed, i>>

\* lines 58-62: the call, and the handler of its ValueError
Calculate ==
    /\ pc = "calc"
    /\ LET res == calculate_simple_interest(principal, rate, time)
       IN  /\ calls' = Append(calls, <<principal, rate, time>>)
           /\ IF res.raised
              THEN /\ out' = Append(out, ErrorLine(res.msg))
                   /\ status' = "exit 0"
                   /\ pc' = "done"
                   /\ UNCHANGED <<interest, total>>
              ELSE /\ interest' = res.interest
                   /\ total' = res.total
                   /\ pc' = "print_interest"
                   /\ UNCHANGED <<out, status>>
    /\ UNCHANGED <<argv, args, principal, rate, time, prompts, typed, err, i>>

\* a variant of PrintInterest that prints the total
PrintInterestOfTotal ==
    /\ pc = "print_interest"
    /\ out' = Append(out, InterestLine(total))
    /\ pc' = "print_total"
    /\ UNCHANGED <<argv, args, principal, rate, time, interest, total,
                   prompts, typed, err, status, calls, i>>

\* line 64
PrintInterest ==
    /\ pc = "print_interest"
    /\ out' = Append(out, InterestLine(interest))
    /\ pc' = "print_total"
    /\ UNCHANGED <<argv, args, principal, rate, time, interest, total,
                   prompts, typed, err, status, calls, i>>

\* line 65 and main's return
PrintTotal ==
    /\ pc = "print_total"
    /\ out' = Append(out, TotalLine(total))
    /\ status' = "exit 0"
    /\ pc' = "done"
    /\ UNCHANGED <<argv, args, principal, rate, time, interest, total,
                   prompts, typed, err, calls, i>>

Next ==
    \/ ParseArgs
    \/ RunTestCase
    \/ TestsPassed
    \/ AcquirePrincipal
    \/ AcquireRate
    \/ AcquireTime
    \/ Calculate
    \/ PrintInterest
    \/ PrintTotal

Spec == Init /\ [][Next]_vars

(***************************************************************************)
(* Vocabulary of the properties, stated on the representation of a float   *)
(* and on the texts, not through the program's own tests.                  *)
(***************************************************************************)
Negative(x) == x.k \in {"fin", "inf"} /\ x.s = 1 /\ ~(x.k = "fin" /\ x.m = 0)       \* x < 0
NonNegative(x) == x.k \in {"fin", "inf"} /\ (x.s = 0 \/ (x.k = "fin" /\ x.m = 0))  \* x >= 0
NonNumeric == { <<"a", "b", "c">>, <<>> }        \* the texts float() rejects
Dec(n) == DecToFloat(0, n, 0)

PromptOf(f) ==
    CASE f = "principal" -> "Principal: "
      [] f = "rate" -> "Annual rate (percent): "
      [] f = "time" -> "Time (years): "
Rank(prompt) ==
    CASE prompt = "Principal: " -> 1
      [] prompt = "Annual rate (percent): " -> 2
      [] prompt = "Time (years): " -> 3
PromptCount(f) == Cardinality({j \in 1..Len(prompts) : prompts[j] = PromptOf(f)})
Local(f) ==
    CASE f = "principal" -> principal
      [] f = "rate" -> rate
      [] f = "time" -> time

AllObtained == principal # NoFloat /\ rate # NoFloat /\ time # NoFloat
\* main (without --test) has called calculate_simple_interest and the call has ended
Called == ~argv.test /\ AllObtained /\ pc # "calc"
Valid == NonNegative(principal) /\ NonNegative(rate) /\ NonNegative(time)
SomeNegative == Negative(principal) \/ Negative(rate) \/ Negative(time)
FlagNonNumeric == \E f \in Flags : argv[f] \in NonNumeric
TypedNonNumeric == \E j \in 1..Len(typed) : typed[j] \in NonNumeric

\* C1: whenever at least one of principal, rate, time is negative, whatever
\* the other two are, calculate_simple_interest raises ValueError and no
\* interest and no total is computed or returned.
C1_NegativeRaises ==
    (Called /\ SomeNegative) =>
        /\ calculate_simple_interest(principal, rate, time).raised
        /\ interest = NoFloat /\ total = NoFloat
        /\ calls = << <<principal, rate, time>> >>
        /\ out = <<ErrorLine(ValueErrorMsg)>>

\* C1 witness: a call that ended with only time negative (rate is a NaN)
C1_Witness ==
    /\ Called /\ Negative(time) /\ ~Negative(principal) /\ IsNaN(rate)
    /\ interest = NoFloat /\ out = <<ErrorLine(ValueErrorMsg)>>

\* C2: for principal >= 0, rate >= 0 and time >= 0 the interest returned is
\* principal * (rate / 100) * time, the operations taken in this order;
\* (1000, 5, 1) gives 50 and 1050, (2000, 3.5, 2) gives 140 and 2140, and
\* (0, 10, 1) gives 0 and 0.
C2_InterestFormula ==
    (Called /\ Valid) =>
        /\ interest = FMul(FMul(principal, FDiv(rate, Dec(100))), time)
        /\ (principal = Dec(1000) /\ rate = Dec(5) /\ time = Dec(1))
               => (interest = Dec(50) /\ total = Dec(1050))
        /\ (principal = Dec(2000) /\ rate = DecToFloat(0, 35, -1) /\ time = Dec(2))
               => (interest = Dec(140) /\ total = Dec(2140))
        /\ (principal = Dec(0) /\ rate = Dec(10) /\ time = Dec(1))
               => (interest = Dec(0) /\ total = Dec(0))

\* C2 witness: the call (2000, 3.5, 2) has returned 140 and 2140
C2_Witness ==
    /\ Called /\ principal = Dec(2000) /\ rate = DecToFloat(0, 35, -1) /\ time = Dec(2)
    /\ interest = Dec(140) /\ total = Dec(2140)

\* C3: for every valid request the total returned is the principal plus the
\* interest returned by the same call.
C3_TotalIsSum == (Called /\ Valid) => total = FAdd(principal, interest)

\* C3 witness: a valid call whose sum is rounded (1000 + 1000 * (3.5/100) * 5)
C3_Witness ==
    /\ Called /\ Valid /\ principal = Dec(1000) /\ rate = DecToFloat(0, 35, -1)
    /\ time = Dec(5) /\ total # NoFloat /\ total # principal

\* C4 as stated: the interest is 0 when principal is 0 for any rate and time,
\* when rate is 0 for any principal and time, and when time is 0 for any
\* principal and rate.
C4_Original ==
    (Called /\ (IsZero(principal) \/ IsZero(rate) \/ IsZero(time)))
        => IsZero(interest)

\* no argument is infinite and principal * (rate / 100) does not overflow
NoOverflow ==
    /\ IsFinite(principal) /\ IsFinite(rate) /\ IsFinite(time)
    /\ IsFinite(FMul(principal, FDiv(rate, Dec(100))))

\* C4 amended: when one of the three is 0 and all three are non-negative, the
\* interest is 0 if all three are finite and principal * (rate / 100) does
\* not overflow, and a NaN (0 * inf) otherwise.
C4_ZeroInterest ==
    (Called /\ Valid /\ (IsZero(principal) \/ IsZero(rate) \/ IsZero(time))) =>
        /\ NoOverflow => IsZero(interest)
        /\ ~NoOverflow => IsNaN(interest)

\* C4 witness: time 0 with a non-zero principal and rate gives interest 0
C4_Witness ==
    /\ Called /\ Valid /\ IsZero(time) /\ ~IsZero(principal) /\ ~IsZero(rate)
    /\ IsFinite(principal) /\ IsFinite(rate) /\ IsZero(interest)

\* C5 as stated: without --test, a non-numeric text for principal, rate or
\* time, given as a flag's value or typed at a prompt, makes the run print
\* the fixed message and exit normally with status 0.
C5_Original ==
    (~argv.test /\ pc = "done" /\ (FlagNonNumeric \/ TypedNonNumeric))
        => (out = <<InvalidLine>> /\ status = "exit 0")

\* C5 amended: without --test, a non-numeric text typed at a prompt makes the
\* run print the fixed message, and nothing else, and exit with status 0; a
\* non-numeric value of a flag is rejected by argparse instead: a usage error
\* on the standard error, exit status 2, no prompt and nothing printed.
C5_InvalidInput ==
    ~argv.test =>
        /\ TypedNonNumeric => (pc = "done" /\ out = <<InvalidLine>> /\ status = "exit 0" /\ err = "")
        /\ (FlagNonNumeric /\ pc = "done")
               => (status = "exit 2" /\ err = "usage" /\ out = <<>> /\ prompts = <<>>)

\* C5 witness: the rate typed at its prompt was not numeric
C5_Witness ==
    /\ ~argv.test /\ Len(typed) = 2 /\ typed[2] \in NonNumeric
    /\ out = <<InvalidLine>> /\ status = "exit 0"

\* C6: without --test, when all three values are numbers and at least one is
\* negative, the run prints the one line "Error: <message>" and exits
\* normally; it prints neither the Interest nor the Total Amount line.
C6_NegativeReported ==
    (~argv.test /\ AllObtained /\ SomeNegative) =>
        /\ pc \in {"calc", "done"}
        /\ pc = "calc" => (out = <<>> /\ status = Running)
        /\ pc = "done" => (out = <<ErrorLine(ValueErrorMsg)>> /\ status = "exit 0" /\ err = "")

\* C6 witness: a run with a negative principal has ended
C6_Witness ==
    /\ ~argv.test /\ AllObtained /\ Negative(principal) /\ pc = "done"
    /\ out = <<ErrorLine(ValueErrorMsg)>>

\* C7: without --test, when all three values are numbers >= 0, the run prints
\* the Interest line and then the Total Amount line, carrying the interest
\* and the total of calculate_simple_interest for these values with two
\* decimals, and nothing else.
C7_ResultPrinted ==
    (~argv.test /\ AllObtained /\ Valid) =>
        LET res == calculate_simple_interest(principal, rate, time)
        IN  /\ pc = "print_total" => out = <<InterestLine(res.interest)>>
            /\ pc = "done" =>
                   /\ out = <<InterestLine(res.interest), TotalLine(res.total)>>
                   /\ status = "exit 0" /\ err = ""
            /\ (pc = "done" /\ principal = Dec(2000) /\ rate = DecToFloat(0, 35, -1)
                    /\ time = Dec(2)) =>
                   out = << <<"Interest: ", "1", "4", "0", ".", "0", "0">>,
                            <<"Total Amount: ", "2", "1", "4", "0", ".", "0", "0">> >>

\* C7 witness: a valid run has printed two different lines
C7_Witness ==
    /\ ~argv.test /\ AllObtained /\ Valid /\ pc = "done" /\ Len(out) = 2
    /\ out[1] = <<"Interest: ", "5", "0", ".", "0", "0">>
    /\ out[2] = <<"Total Amount: ", "1", "0", "5", "0", ".", "0", "0">>

\* C8 as stated: without --test, every omitted numeric flag triggers a
\* prompt, and a supplied flag triggers none.
C8_Original ==
    (~argv.test /\ pc = "done") =>
        \A f \in Flags : (argv[f] = Omitted) <=> (PromptCount(f) = 1)

\* the run has gone past the acquisition of f: the command line was accepted
\* and every earlier value was obtained as a number
Past(f) ==
    CASE f = "principal" -> pc \notin {"start", "acq_principal"} /\ status # "exit 2"
      [] f = "rate" -> principal # NoFloat /\ pc # "acq_rate"
      [] f = "time" -> rate # NoFloat /\ pc # "acq_time"

\* C8 amended: without --test, a supplied flag triggers no prompt, and an
\* omitted flag triggers exactly one prompt once the run gets to it, that is
\* when argparse accepted the command line and every earlier value was
\* obtained as a number, and none otherwise; each prompt reads at most one
\* line, and the value obtained is that line parsed as a float.
C8_PromptsForOmitted ==
    ~argv.test =>
        /\ \A f \in Flags :
            /\ argv[f] # Omitted => PromptCount(f) = 0
            /\ (argv[f] = Omitted /\ Past(f)) => PromptCount(f) = 1
            /\ (argv[f] = Omitted /\ ~Past(f)) => PromptCount(f) = 0
            /\ (argv[f] = Omitted /\ Local(f) # NoFloat) =>
                   \E j \in 1..Len(typed) :
                       /\ prompts[j] = PromptOf(f)
                       /\ typed[j] \notin NonNumeric
                       /\ Local(f) = ParseFloat(typed[j]).val
            /\ (argv[f] # Omitted /\ Local(f) # NoFloat) =>
                   Local(f) = ParseFloat(argv[f]).val
        /\ Len(typed) <= Len(prompts) /\ Len(prompts) <= Len(typed) + 1

\* C8 witness: rate and time omitted and prompted for, principal supplied as 0
C8_Witness ==
    /\ ~argv.test /\ pc = "done" /\ argv.principal = <<"0">>
    /\ argv.rate = Omitted /\ argv.time = Omitted
    /\ prompts = <<"Annual rate (percent): ", "Time (years): ">>
    /\ Len(typed) = 2 /\ time # NoFloat

\* C9 as stated: with --test, whatever the other flags, the run prints
\* "All tests passed." and nothing else, issues no prompt and reads no input.
C9_Original ==
    (argv.test /\ pc = "done") =>
        (out = <<PassedLine>> /\ prompts = <<>> /\ typed = <<>>)

\* C9 amended: with --test, whatever the other flags, the run issues no
\* prompt, reads no input and prints no Interest, Total Amount, Error or
\* invalid-input line; when argparse accepts the command line it runs the
\* three checks, prints "All tests passed." and exits with status 0, and when
\* a flag's value is not numeric argparse ends the run with status 2 before
\* any check.
C9_TestOnly ==
    argv.test =>
        /\ prompts = <<>> /\ typed = <<>>
        /\ out \in {<<>>, <<PassedLine>>}
        /\ principal = NoFloat /\ rate = NoFloat /\ time = NoFloat
        /\ interest = NoFloat /\ total = NoFloat
        /\ (pc = "done" /\ ~FlagNonNumeric) =>
               (out = <<PassedLine>> /\ status = "exit 0" /\ err = "" /\ Len(calls) = Len(cases))
        /\ (pc = "done" /\ FlagNonNumeric) =>
               (out = <<>> /\ status = "exit 2" /\ calls = <<>>)

\* C9 witness: a --test run with a negative principal supplied has passed
C9_Witness ==
    /\ argv.test /\ pc = "done" /\ argv.principal = <<"-", "1", "0", "0">>
    /\ argv.rate = Omitted /\ out = <<PassedLine>> /\ Len(calls) = 3

\* C10: without --test the values are acquired in the order principal, rate,
\* time; a line that fails to parse is the last line read and its prompt the
\* last prompt; calculate_simple_interest is called at most once, with the
\* three values and only when all three are numbers, and never in a run that
\* printed the invalid-input message.
C10_AcquisitionOrder ==
    ~argv.test =>
        /\ rate # NoFloat => principal # NoFloat
        /\ time # NoFloat => rate # NoFloat
        /\ \A j, h \in 1..Len(prompts) : j < h => Rank(prompts[j]) < Rank(prompts[h])
        /\ \A j \in 1..Len(typed) :
               typed[j] \in NonNumeric =>
                   (j = Len(typed) /\ Len(prompts) = j /\ pc = "done")
        /\ Len(calls) <= 1
        /\ calls # <<>> => (AllObtained /\ calls[1] = <<principal, rate, time>>)
        /\ (\E j \in 1..Len(out) : out[j] = InvalidLine) => calls = <<>>
        /\ (pc \in {"print_interest", "print_total"} \/ (pc = "done" /\ AllObtained))
               => Len(calls) = 1

\* C10 witness: the principal was typed, then the rate failed to parse, with
\* the time still to ask for
C10_Witness ==
    /\ ~argv.test /\ argv.time = Omitted /\ pc = "done"
    /\ prompts = <<"Principal: ", "Annual rate (percent): ">>
    /\ Len(typed) = 2 /\ typed[2] = <<"a", "b", "c">>
    /\ principal # NoFloat /\ rate = NoFloat /\ calls = <<>>

TypeOK ==
    /\ pc \in {"start", "tests", "acq_principal", "acq_rate", "acq_time",
               "calc", "print_interest", "print_total", "done"}
    /\ status \in {Running, "exit 0", "exit 1", "exit 2"}
    /\ (pc = "done") = (status # Running)
=============================================================================
